---- MODULE Spec2Model ----
(***************************************************************************)
(* Model of process_attendance.py: the import run (main) that reconciles   *)
(* the participants of a quiz export against the attendees / sessions /    *)
(* attendee_log worksheets of a remote spreadsheet.                        *)
(*                                                                         *)
(* The store assigns the id column of an appended row asynchronously (the  *)
(* code sleeps and re-reads the last row), so id assignment is a separate  *)
(* step of the environment.  Every action of a run is one stretch of code  *)
(* between two store round-trips.                                          *)
(***************************************************************************)
EXTENDS Integers, Sequences, FiniteSets, TLC

\* ------------------------------------------------------------------ bounds
MaxRuns == 2            \* import runs started over the life of the spreadsheet
MaxParticipants == 2    \* length of the participant list of one run
MaxLagRuns == 1         \* import runs started against a lagging store
MaxScanRuns == 1        \* import runs started on a spreadsheet that holds rows
MaxRows == 2            \* attendee rows such a spreadsheet holds at the start
MaxFairRuns == 1        \* import runs started when progress is looked at
MaxConcRuns == 2        \* import runs started by operators working at once
MaxConcParticipants == 1    \* length of the participant list of such a run

Procs == {1, 2}         \* operators able to start the script

Names == {"Ana", "ana", "Bo"}
Emails == {"a@x", "A@X", "b@x"}
ConfirmInputs == {"yes", "Y", " yes ", "no", ""}

\* ------------------------------------------------------------ string model
\* str.lower() on the strings of the model
Lower(s) ==
    CASE s = "Ana" -> "ana"
      [] s = "Bo" -> "bo"
      [] s = "A@X" -> "a@x"
      [] s = "Y" -> "y"
      [] OTHER -> s

\* str.strip() on the strings of the model
Strip(s) ==
    CASE s = " yes " -> "yes"
      [] OTHER -> s

\* the decimal strings the store writes into an id cell
IdStrs == <<"1", "2", "3", "4", "5", "6", "7", "8", "9", "10", "11", "12">>

\* str(n) for a store-assigned id
ToStr(n) == IdStrs[n]

\* Python's None
None == -1

\* int(s) for a non-empty id cell
int(s) == CHOOSE n \in 1..Len(IdStrs) : IdStrs[n] = s

\* `int(x) if x else None` (lines 216, 227, 235, 262, 288)
IntOrNone(s) == IF s # "" THEN int(s) ELSE None

\* a caller that takes whatever comes back for an id
FalsyNever(x) == FALSE

\* `not x` for an Optional[int] (lines 391, 424)
Falsy(x) == x = None \/ x = 0

\* An entry of email_mapping is drawn when the loop first looks the name up
\* (the dict is fixed by extract_emails, nothing reads it before line 410) and
\* is kept for as long as a later participant has the same name.
Unread == "?"

\* all sequences over S of length at most n
SeqsUpTo(S, n) == UNION {[1..k -> S] : k \in 0..n}

VARIABLES
    \* the remote spreadsheet (data rows, header row excluded)
    attendees,          \* rows [id, name, email] of worksheet "attendees"
    sessions,           \* rows [id, url, title, date] of worksheet "sessions"
    attendance_log,     \* rows [attendee_id, session_id] of "attendee_log"
    att_visible,        \* number of attendee rows a read returns
    sess_visible,       \* number of session rows a read returns
    \* the import runs
    runs,               \* runs started so far
    pc,                 \* position of each operator's run in main
    outcome,            \* how the run ended
    participants,       \* main: participants
    email_mapping,      \* main: email_mapping, as far as the loop still reads it
    email,              \* main: email of the loop's participant
    confirmation,       \* main: confirmation
    session_id,         \* main: session_id
    cur,                \* index of the loop's participant_name
    member_id,          \* main: member_id
    all_values,         \* get_or_create_attendee: snapshot read at line 198
    attendance_count,
    skipped_count,
    blank_email_count,
    \* history
    wrote,              \* the run has issued a store mutation
    passed,             \* gates of main the run went through
    appended,           \* attendee row appended by the call in progress, 0 if none
    sess_row,           \* session row appended by the run, 0 if none
    log_rows,           \* attendance rows appended by the run
    blank_ids,          \* ids the run logged for participants without email
    mailed_ids,         \* ids the run logged for participants with an email
    extracted,          \* the names validate_names_with_llm was called with
    response,           \* what the chat-completions call of the run did
    writer,             \* for each attendee row, the operator whose run wrote it last
    last_call           \* the latest get_or_create_attendee call that returned

vars == <<attendees, sessions, attendance_log, att_visible, sess_visible,
          runs, pc, outcome, participants, email_mapping, email, confirmation,
          session_id, cur, member_id, all_values,
          attendance_count, skipped_count, blank_email_count,
          wrote, passed, appended, sess_row, log_rows, blank_ids,
          mailed_ids, extracted, response, writer, last_call>>

storeVars == <<attendees, sessions, attendance_log, att_visible, sess_visible>>
histVars == <<wrote, passed, appended, sess_row, log_rows, blank_ids, mailed_ids,
              extracted, response, writer, last_call>>
filterVars == <<extracted, response>>
logVars == <<log_rows, blank_ids, mailed_ids>>
tallyVars == <<attendance_count, skipped_count, blank_email_count>>
inputVars == <<participants, email_mapping, email, confirmation>>

\* no call has returned yet, or the latest call raised
NoCall == [name |-> "", email |-> "", id |-> None, appended |-> FALSE,
           updated |-> 0, follows |-> "other"]

\* no chat-completions call is being handled
NoResponse == [key |-> FALSE, status |-> 0, parses |-> FALSE, body |-> <<>>]

Set(f, p, v) == [f EXCEPT ![p] = v]

\* nobody has started the script
InitRuns ==
    /\ runs = 0
    /\ pc = [p \in Procs |-> "idle"]
    /\ outcome = [p \in Procs |-> "none"]
    /\ participants = [p \in Procs |-> <<>>]
    /\ email_mapping = [p \in Procs |-> [n \in Names |-> Unread]]
    /\ email = [p \in Procs |-> ""]
    /\ confirmation = [p \in Procs |-> ""]
    /\ session_id = [p \in Procs |-> None]
    /\ cur = [p \in Procs |-> 1]
    /\ member_id = [p \in Procs |-> None]
    /\ all_values = [p \in Procs |-> <<>>]
    /\ attendance_count = [p \in Procs |-> 0]
    /\ skipped_count = [p \in Procs |-> 0]
    /\ blank_email_count = [p \in Procs |-> 0]
    /\ wrote = [p \in Procs |-> FALSE]
    /\ passed = [p \in Procs |-> {}]
    /\ appended = [p \in Procs |-> 0]
    /\ sess_row = [p \in Procs |-> 0]
    /\ log_rows = [p \in Procs |-> 0]
    /\ blank_ids = [p \in Procs |-> {}]
    /\ mailed_ids = [p \in Procs |-> {}]
    /\ extracted = [p \in Procs |-> <<>>]
    /\ response = [p \in Procs |-> NoResponse]
    /\ last_call = NoCall

\* the spreadsheet has its header rows only
Init ==
    /\ attendees = <<>>
    /\ writer = <<>>
    /\ sessions = <<>>
    /\ attendance_log = <<>>
    /\ att_visible = 0
    /\ sess_visible = 0
    /\ InitRuns

\* attendee tables as earlier use may have left them, rows with the same
\* name or the same email included; the id of a row is its number
Tables ==
    {[k \in 1..n |-> [id |-> ToStr(k), name |-> nm[k], email |-> em[k]]] :
        n \in 0..MaxRows,
        nm \in [1..MaxRows -> {"Ana", "ana"}],
        em \in [1..MaxRows -> {"", "a@x", "A@X"}]}

\* the script is started on a spreadsheet that holds attendee rows
InitTable ==
    /\ attendees \in Tables
    /\ writer = [k \in DOMAIN attendees |-> 0]
    /\ att_visible = Len(attendees)
    /\ sessions = <<>>
    /\ attendance_log = <<>>
    /\ sess_visible = 0
    /\ InitRuns

\* ------------------------------------------------------------------- store
\* sheet.get_all_values(): the data rows a read returns
get_all_values(sheet, visible) == SubSeq(sheet, 1, visible)

\* rows a read returns after sheet.append_row: with a lagging store the new
\* row shows up later (StoreShowRow)
VisibleAfterAppend(lag, sheet_after, visible) ==
    IF lag THEN visible ELSE Len(sheet_after)

\* sheet.update_cell(row_num, col, value): row_num counts the header row as
\* row 1, column 3 of "attendees" is email
update_cell(sheet, row_num, col, value) ==
    IF col = 3 /\ row_num - 1 \in DOMAIN sheet
    THEN [sheet EXCEPT ![row_num - 1].email = value]
    ELSE sheet

\* the store fills the id cell of a row some time after the append
StoreAssignAttendeeId ==
    /\ \E k \in DOMAIN attendees :
          /\ attendees[k].id = ""
          /\ attendees' = [attendees EXCEPT ![k].id = ToStr(k)]
    /\ UNCHANGED <<sessions, attendance_log, att_visible, sess_visible, runs, pc,
                   outcome, inputVars, session_id, cur, member_id, all_values,
                   tallyVars, histVars>>

StoreAssignSessionId ==
    /\ \E k \in DOMAIN sessions :
          /\ sessions[k].id = ""
          /\ sessions' = [sessions EXCEPT ![k].id = ToStr(k)]
    /\ UNCHANGED <<attendees, attendance_log, att_visible, sess_visible, runs, pc,
                   outcome, inputVars, session_id, cur, member_id, all_values,
                   tallyVars, histVars>>

\* a lagging store makes an appended row visible to reads
StoreShowRow ==
    /\ \/ /\ att_visible < Len(attendees)
          /\ att_visible' = att_visible + 1
          /\ UNCHANGED sess_visible
       \/ /\ sess_visible < Len(sessions)
          /\ sess_visible' = sess_visible + 1
          /\ UNCHANGED att_visible
    /\ UNCHANGED <<attendees, sessions, attendance_log, runs, pc,
                   outcome, inputVars, session_id, cur, member_id, all_values,
                   tallyVars, histVars>>

\* --------------------------------------------------------- name filter
Range(f) == {f[k] : k \in DOMAIN f}

\* ordered lists of distinct names (extract_participant_data)
DistinctLists == {l \in SeqsUpTo(Names, MaxParticipants) :
                     \A a, b \in DOMAIN l : a # b => l[a] # l[b]}

\* what the chat-completions call can do: no API key, a transport error
\* (status 0), a non-200 status, a 200 whose content does not parse, a 200
\* whose content is a JSON array of names
Responses ==
    {[key |-> FALSE, status |-> 0, parses |-> FALSE, body |-> <<>>],
     [key |-> TRUE, status |-> 0, parses |-> FALSE, body |-> <<>>],
     [key |-> TRUE, status |-> 500, parses |-> FALSE, body |-> <<>>],
     [key |-> TRUE, status |-> 200, parses |-> FALSE, body |-> <<>>]}
    \cup {[key |-> TRUE, status |-> 200, parses |-> TRUE, body |-> b] :
             b \in SeqsUpTo(Names, MaxParticipants)}

\* a filter that keeps no name when the call fails
validate_names_fail_closed(names, resp) ==
    IF names = <<>> THEN <<>>
    ELSE IF ~resp.key THEN names
    ELSE IF resp.status = 200 /\ resp.parses THEN resp.body
    ELSE <<>>

\* lines 35-105
validate_names_with_llm(names, resp) ==
    IF names = <<>> THEN <<>>
    ELSE IF ~resp.key THEN names
    ELSE IF resp.status = 0 THEN names
    ELSE IF resp.status = 200
         THEN IF resp.parses THEN resp.body ELSE names
         ELSE names

\* --------------------------------------------------------------- main
Done(p, how) ==
    /\ pc' = Set(pc, p, "done")
    /\ outcome' = Set(outcome, p, how)

\* lines 301-339: the script is started, reads its inputs, extracts the
\* participants, the date and the emails and filters the names
Extract(p, max_runs) ==
    /\ pc[p] \in {"idle", "done"}
    /\ runs < max_runs
    /\ runs' = runs + 1
    /\ session_id' = Set(session_id, p, None)
    /\ member_id' = Set(member_id, p, None)
    /\ cur' = Set(cur, p, 1)
    /\ all_values' = Set(all_values, p, <<>>)
    /\ attendance_count' = Set(attendance_count, p, 0)
    /\ skipped_count' = Set(skipped_count, p, 0)
    /\ blank_email_count' = Set(blank_email_count, p, 0)
    /\ confirmation' = Set(confirmation, p, "")
    /\ email_mapping' = Set(email_mapping, p, [n \in Names |-> Unread])
    /\ email' = Set(email, p, "")
    /\ wrote' = Set(wrote, p, FALSE)
    /\ appended' = Set(appended, p, 0)
    /\ sess_row' = Set(sess_row, p, 0)
    /\ log_rows' = Set(log_rows, p, 0)
    /\ blank_ids' = Set(blank_ids, p, {})
    /\ mailed_ids' = Set(mailed_ids, p, {})
    /\ UNCHANGED <<writer, last_call>>
    /\ \/ \* an extraction raises (lines 337-339)
          /\ Done(p, "input_error")
          /\ participants' = Set(participants, p, <<>>)
          /\ passed' = Set(passed, p, {})
          /\ extracted' = Set(extracted, p, <<>>)
          /\ response' = Set(response, p, NoResponse)
       \/ \E names \in DistinctLists, resp \in Responses :
               /\ participants' = Set(participants, p,
                                       validate_names_with_llm(names, resp))
               /\ passed' = Set(passed, p, {"extract"})
               /\ extracted' = Set(extracted, p, names)
               /\ response' = Set(response, p, resp)
               /\ pc' = Set(pc, p, "connect")
               /\ outcome' = Set(outcome, p, "none")
    /\ UNCHANGED storeVars

\* lines 343-355
Connect(p) ==
    /\ pc[p] = "connect"
    /\ \/ /\ pc' = Set(pc, p, "confirm")
          /\ passed' = Set(passed, p, passed[p] \cup {"connect"})
          /\ UNCHANGED outcome
       \/ /\ Done(p, "connect_error")
          /\ UNCHANGED passed
    \* the name filter's call is over: its record is dropped
    /\ extracted' = Set(extracted, p, <<>>)
    /\ response' = Set(response, p, NoResponse)
    /\ UNCHANGED <<storeVars, runs, inputVars, session_id, cur, member_id,
                   all_values, tallyVars, wrote, appended, sess_row, logVars,
                   writer, last_call>>

\* a prompt that goes ahead unless the operator declines
AffirmativeUnlessNo(answer) == Lower(Strip(answer)) \notin {"no", "n"}

\* line 377: confirmation in ['yes', 'y'] after strip().lower()
Affirmative(answer) == Lower(Strip(answer)) \in {"yes", "y"}

\* lines 376-379
Confirm(p) ==
    /\ pc[p] = "confirm"
    /\ \E answer \in ConfirmInputs :
          /\ confirmation' = Set(confirmation, p, Lower(Strip(answer)))
          /\ IF Affirmative(answer)
             THEN /\ pc' = Set(pc, p, "create_session")
                  /\ passed' = Set(passed, p, passed[p] \cup {"confirm"})
                  /\ UNCHANGED outcome
             ELSE /\ Done(p, "cancelled")
                  /\ UNCHANGED passed
    /\ UNCHANGED <<storeVars, runs, participants, email_mapping, email, session_id,
                   cur, member_id, all_values, tallyVars, wrote, appended, sess_row,
                   logVars, filterVars, writer, last_call>>

\* ------------------------------------------------------- create_session
\* the session details the operator typed and the extracted quiz date
SessionRow == [id |-> "", url |-> "https://quiz", title |-> "Week 1",
               date |-> "2025-03-03"]

\* the id read off the first row instead of the last
FirstRowId(rows) == Strip(rows[1].id)

\* all_values[-1], first column, stripped (lines 279-280, 285-286) and the
\* "id" field of last_record (lines 247-252, 257-260)
LastRowId(rows) == Strip(rows[Len(rows)].id)

\* main going on to the participants whatever create_session returned
SessionReturnedUnchecked(p, v) ==
    /\ session_id' = Set(session_id, p, v)
    /\ pc' = Set(pc, p, "loop")
    /\ UNCHANGED outcome

\* lines 391-395: main takes create_session's result
SessionReturned(p, v) ==
    /\ session_id' = Set(session_id, p, v)
    /\ IF Falsy(v)
       THEN Done(p, "session_failed")
       ELSE /\ pc' = Set(pc, p, "loop")
            /\ UNCHANGED outcome

\* line 273
CreateSessionAppend(p, lag) ==
    /\ pc[p] = "create_session"
    /\ sessions' = Append(sessions, SessionRow)
    /\ sess_visible' = VisibleAfterAppend(lag, sessions', sess_visible)
    /\ wrote' = Set(wrote, p, TRUE)
    /\ sess_row' = Set(sess_row, p, Len(sessions'))
    /\ pc' = Set(pc, p, "sess_poll1")
    /\ UNCHANGED <<attendees, attendance_log, att_visible, runs, outcome,
                   inputVars, session_id, cur, member_id, all_values, tallyVars,
                   passed, appended, logVars, filterVars, writer, last_call>>

\* lines 275-282 and 288-290: first read after the append
SessionPoll1(p) ==
    /\ pc[p] = "sess_poll1"
    /\ LET rows == get_all_values(sessions, sess_visible) IN
       IF Len(rows) = 0
       THEN SessionReturned(p, None)
       ELSE IF LastRowId(rows) = ""
            THEN /\ pc' = Set(pc, p, "sess_poll2")
                 /\ UNCHANGED <<session_id, outcome>>
            ELSE SessionReturned(p, IntOrNone(LastRowId(rows)))
    /\ UNCHANGED <<storeVars, runs, inputVars, cur, member_id, all_values,
                   tallyVars, histVars>>

\* lines 283-288: the one retry
SessionPoll2(p) ==
    /\ pc[p] = "sess_poll2"
    /\ LET rows == get_all_values(sessions, sess_visible) IN
       SessionReturned(p, IntOrNone(LastRowId(rows)))
    /\ UNCHANGED <<storeVars, runs, inputVars, cur, member_id, all_values,
                   tallyVars, histVars>>

\* lines 397-399: a store call of create_session raises
SessionError(p) ==
    /\ pc[p] \in {"create_session", "sess_poll1", "sess_poll2"}
    /\ Done(p, "session_error")
    /\ UNCHANGED <<storeVars, runs, inputVars, session_id, cur, member_id,
                   all_values, tallyVars, histVars>>

\* ------------------------------------------------ get_or_create_attendee
\* the largest index of a non-empty set: the last hit of a scan
Last(S) == CHOOSE k \in S : \A j \in S : k >= j

\* the smallest index of a non-empty set: the first hit of a scan
First(S) == CHOOSE k \in S : \A j \in S : k <= j

\* the scan with `.lower()` left off the stored email
EmailHitsStoredAsIs(records, em) ==
    {idx \in 0..(Len(records) - 1) :
        Strip(records[idx + 1].email) = Lower(em)}

\* the scan with `.lower()` left off the email looked for
EmailHitsArgAsIs(records, em) ==
    {idx \in 0..(Len(records) - 1) :
        Lower(Strip(records[idx + 1].email)) = em}

\* lines 212-214: 0-based indexes of the records whose email equals em
EmailHits(records, em) ==
    {idx \in 0..(Len(records) - 1) :
        Lower(Strip(records[idx + 1].email)) = Lower(em)}

\* the name scan without `and not existing_email`
BackfillHitsAnyEmail(records, name) ==
    {idx \in 0..(Len(records) - 1) :
        Lower(Strip(records[idx + 1].name)) = Strip(Lower(name))}

\* lines 218-222: records of that name whose email is empty
BackfillHits(records, name) ==
    {idx \in 0..(Len(records) - 1) :
        /\ Lower(Strip(records[idx + 1].name)) = Strip(Lower(name))
        /\ Strip(records[idx + 1].email) = ""}

\* a name search that passes over the records holding an email
NameHitsEmptyEmail(records, name) ==
    {idx \in 0..(Len(records) - 1) :
        /\ Lower(Strip(records[idx + 1].name)) = Strip(Lower(name))
        /\ Strip(records[idx + 1].email) = ""}

\* lines 230-233: records of that name
NameHits(records, name) ==
    {idx \in 0..(Len(records) - 1) :
        Lower(Strip(records[idx + 1].name)) = Strip(Lower(name))}

\* a scan that passes over the records whose id cell is still empty
ResolutionAssignedOnly(records, name, em) ==
    LET WithId(S) == {idx \in S : Strip(records[idx + 1].id) # ""} IN
    IF em # ""
    THEN IF WithId(EmailHits(records, em)) # {}
         THEN [kind |-> "found", idx |-> First(WithId(EmailHits(records, em)))]
         ELSE IF WithId(BackfillHits(records, name)) # {}
              THEN [kind |-> "backfill",
                    idx |-> First(WithId(BackfillHits(records, name)))]
              ELSE [kind |-> "append", idx |-> 0]
    ELSE IF WithId(NameHits(records, name)) # {}
         THEN [kind |-> "found", idx |-> First(WithId(NameHits(records, name)))]
         ELSE [kind |-> "append", idx |-> 0]

\* a scan that looks for a row of the name to fill before it looks for the
\* email
ResolutionNameFirst(records, name, em) ==
    IF em # ""
    THEN IF BackfillHits(records, name) # {}
         THEN [kind |-> "backfill", idx |-> First(BackfillHits(records, name))]
         ELSE IF EmailHits(records, em) # {}
              THEN [kind |-> "found", idx |-> First(EmailHits(records, em))]
              ELSE [kind |-> "append", idx |-> 0]
    ELSE IF NameHits(records, name) # {}
         THEN [kind |-> "found", idx |-> First(NameHits(records, name))]
         ELSE [kind |-> "append", idx |-> 0]

\* lines 211-237: what the scan of the snapshot decides
Resolution(records, name, em) ==
    IF em # ""
    THEN IF EmailHits(records, em) # {}
         THEN [kind |-> "found", idx |-> First(EmailHits(records, em))]
         ELSE IF BackfillHits(records, name) # {}
              THEN [kind |-> "backfill", idx |-> First(BackfillHits(records, name))]
              ELSE [kind |-> "append", idx |-> 0]
    ELSE IF NameHits(records, name) # {}
         THEN [kind |-> "found", idx |-> First(NameHits(records, name))]
         ELSE [kind |-> "append", idx |-> 0]

\* line 408
participant_name(p) == participants[p][cur[p]]

\* the names the loop has still to process after the current one
LaterNames(p) == {participants[p][k] : k \in (cur[p] + 1)..Len(participants[p])}

\* line 410: email_mapping.get(participant_name, ""), "" when the export has
\* no valid email for the name
LookUps(p) ==
    IF email_mapping[p][participant_name(p)] # Unread
    THEN {email_mapping[p][participant_name(p)]}
    ELSE Emails \cup {""}

\* how the arguments of a call relate to those of the call that returned
\* before it: the same pair, the same name with the email in another case
Follows(call, name, em) ==
    IF call = NoCall \/ call.name # name THEN "other"
    ELSE IF call.email = em THEN "same"
    ELSE IF Lower(call.email) = Lower(em) THEN "fold"
    ELSE "other"

\* row_num of the update_cell the returning call made (line 222), 0 if none
updated_row(p) ==
    IF pc[p] = "match"
    THEN LET r == Resolution(all_values[p], participant_name(p), email[p])
         IN IF r.kind = "backfill" THEN r.idx + 2 ELSE 0
    ELSE 0

\* lines 424-427: main takes get_or_create_attendee's result
AttendeeReturned(p, v) ==
    /\ member_id' = Set(member_id, p, v)
    /\ last_call' = [name |-> participant_name(p), email |-> email[p], id |-> v,
                     appended |-> appended[p] # 0,
                     updated |-> updated_row(p),
                     follows |-> Follows(last_call, participant_name(p), email[p])]
    /\ IF Falsy(v)
       THEN /\ skipped_count' = Set(skipped_count, p, skipped_count[p] + 1)
            /\ cur' = Set(cur, p, cur[p] + 1)
            /\ pc' = Set(pc, p, "loop")
       ELSE /\ pc' = Set(pc, p, "log")
            /\ UNCHANGED <<skipped_count, cur>>

\* line 408 and line 198: the next participant, the snapshot of the table
ResolveRead(p) ==
    /\ pc[p] = "loop"
    /\ cur[p] <= Len(participants[p])
    /\ \E e \in LookUps(p) :
          /\ email' = Set(email, p, e)
          /\ email_mapping' = [email_mapping EXCEPT ![p][participant_name(p)] =
                                  IF participant_name(p) \in LaterNames(p)
                                  THEN e ELSE Unread]
    /\ all_values' = Set(all_values, p, get_all_values(attendees, att_visible))
    /\ appended' = Set(appended, p, 0)
    /\ member_id' = Set(member_id, p, None)
    /\ pc' = Set(pc, p, "match")
    /\ UNCHANGED <<storeVars, runs, outcome, participants, confirmation, session_id,
                   cur, tallyVars, wrote, passed, sess_row, logVars, filterVars,
                   writer, last_call>>

\* lines 211-237: the scan, then a return, a backfill or an append
ResolveMatch(p, lag) ==
    /\ pc[p] = "match"
    /\ LET records == all_values[p]
           r == Resolution(records, participant_name(p), email[p])
       IN
       CASE r.kind = "found" ->
              /\ AttendeeReturned(p, IntOrNone(Strip(records[r.idx + 1].id)))
              /\ UNCHANGED <<attendees, att_visible, wrote, appended, writer>>
         [] r.kind = "backfill" ->
              /\ attendees' = update_cell(attendees, r.idx + 2, 3, email[p])
              /\ wrote' = Set(wrote, p, TRUE)
              /\ AttendeeReturned(p, IntOrNone(Strip(records[r.idx + 1].id)))
              /\ writer' = [writer EXCEPT ![r.idx + 1] = p]
              /\ UNCHANGED <<att_visible, appended>>
         [] r.kind = "append" ->
              /\ attendees' = Append(attendees,
                     [id |-> "", name |-> participant_name(p), email |-> email[p]])
              /\ att_visible' = VisibleAfterAppend(lag, attendees', att_visible)
              /\ wrote' = Set(wrote, p, TRUE)
              /\ appended' = Set(appended, p, Len(attendees'))
              /\ writer' = Append(writer, p)
              /\ pc' = Set(pc, p, "poll1")
              /\ UNCHANGED <<member_id, skipped_count, cur, last_call>>
    /\ all_values' = Set(all_values, p, <<>>)   \* the snapshot is not read again
    /\ UNCHANGED <<sessions, attendance_log, sess_visible, runs, outcome, inputVars,
                   session_id, attendance_count, blank_email_count,
                   passed, sess_row, logVars, filterVars>>

\* lines 239-254 and 262: first read after the append
AttendeePoll1(p) ==
    /\ pc[p] = "poll1"
    /\ LET rows == get_all_values(attendees, att_visible) IN
       IF Len(rows) = 0
       THEN AttendeeReturned(p, None)
       ELSE IF LastRowId(rows) = ""
            THEN /\ pc' = Set(pc, p, "poll2")
                 /\ UNCHANGED <<member_id, skipped_count, cur, last_call>>
            ELSE AttendeeReturned(p, IntOrNone(LastRowId(rows)))
    /\ UNCHANGED <<storeVars, runs, outcome, inputVars, session_id, all_values,
                   attendance_count, blank_email_count, wrote, passed, appended,
                   sess_row, logVars, filterVars, writer>>

\* a retry that is repeated for as long as the id cell is empty
AttendeePollUntilAssigned(p) ==
    /\ pc[p] = "poll2"
    /\ LET rows == get_all_values(attendees, att_visible) IN
       IF LastRowId(rows) = ""
       THEN UNCHANGED <<pc, member_id, skipped_count, cur, last_call>>
       ELSE AttendeeReturned(p, IntOrNone(LastRowId(rows)))
    /\ UNCHANGED <<storeVars, runs, outcome, inputVars, session_id, all_values,
                   attendance_count, blank_email_count, wrote, passed, appended,
                   sess_row, logVars, filterVars, writer>>

\* lines 255-262: the one retry
AttendeePoll2(p) ==
    /\ pc[p] = "poll2"
    /\ LET rows == get_all_values(attendees, att_visible) IN
       AttendeeReturned(p, IntOrNone(LastRowId(rows)))
    /\ UNCHANGED <<storeVars, runs, outcome, inputVars, session_id, all_values,
                   attendance_count, blank_email_count, wrote, passed, appended,
                   sess_row, logVars, filterVars, writer>>

\* a row with the two ids in the other order
LogRowSwapped(member, session) == [attendee_id |-> session, session_id |-> member]

\* line 298: the row log_attendance appends, [member_id, session_id]
LogRow(member, session) == [attendee_id |-> member, session_id |-> session]

\* lines 430-437: log_attendance (line 298) and the tallies
LogAttendance(p) ==
    /\ pc[p] = "log"
    /\ attendance_log' = Append(attendance_log, LogRow(member_id[p], session_id[p]))
    /\ wrote' = Set(wrote, p, TRUE)
    /\ log_rows' = Set(log_rows, p, log_rows[p] + 1)
    /\ IF email[p] # ""
       THEN /\ attendance_count' = Set(attendance_count, p, attendance_count[p] + 1)
            /\ mailed_ids' = Set(mailed_ids, p, mailed_ids[p] \cup {member_id[p]})
            /\ UNCHANGED <<blank_email_count, blank_ids>>
       ELSE /\ blank_email_count' = Set(blank_email_count, p, blank_email_count[p] + 1)
            /\ blank_ids' = Set(blank_ids, p, blank_ids[p] \cup {member_id[p]})
            /\ UNCHANGED <<attendance_count, mailed_ids>>
    /\ cur' = Set(cur, p, cur[p] + 1)
    /\ pc' = Set(pc, p, "loop")
    /\ UNCHANGED <<attendees, sessions, att_visible, sess_visible, runs, outcome,
                   inputVars, session_id, member_id, all_values, skipped_count,
                   passed, appended, sess_row, filterVars, writer, last_call>>

\* the store calls the code at p's position is about to make
MakesStoreCall(p) ==
    \/ pc[p] \in {"poll1", "poll2", "log"}
    \/ pc[p] = "loop" /\ cur[p] <= Len(participants[p])
    \/ /\ pc[p] = "match"
       /\ Resolution(all_values[p], participant_name(p), email[p]).kind # "found"

\* the loop without its try/except: the exception ends the run
ParticipantErrorUncaught(p) ==
    /\ MakesStoreCall(p)
    /\ Done(p, "crashed")
    /\ last_call' = IF pc[p] = "log" THEN last_call ELSE NoCall
    /\ UNCHANGED <<storeVars, runs, inputVars, session_id, cur, member_id,
                   all_values, tallyVars, wrote, passed, appended, sess_row,
                   logVars, filterVars, writer>>

\* lines 439-441: a store call made for the participant raises
ParticipantError(p) ==
    /\ MakesStoreCall(p)
    /\ skipped_count' = Set(skipped_count, p, skipped_count[p] + 1)
    /\ cur' = Set(cur, p, cur[p] + 1)
    /\ pc' = Set(pc, p, "loop")
    /\ last_call' = IF pc[p] = "log" THEN last_call ELSE NoCall
    /\ UNCHANGED <<storeVars, runs, outcome, inputVars, session_id, member_id,
                   all_values, attendance_count, blank_email_count, wrote, passed,
                   appended, sess_row, logVars, filterVars, writer>>

\* lines 443-454: the loop is over, the completion summary
Summary(p) ==
    /\ pc[p] = "loop"
    /\ cur[p] > Len(participants[p])
    /\ Done(p, "completed")
    /\ UNCHANGED <<storeVars, runs, inputVars, session_id, cur, member_id,
                   all_values, tallyVars, histVars>>

\* ---------------------------------------------------------- specifications
Run(p, lag, max_runs) ==
    \/ Extract(p, max_runs)
    \/ Connect(p)
    \/ Confirm(p)
    \/ CreateSessionAppend(p, lag)
    \/ SessionPoll1(p)
    \/ SessionPoll2(p)
    \/ SessionError(p)
    \/ ResolveRead(p)
    \/ ResolveMatch(p, lag)
    \/ AttendeePoll1(p)
    \/ AttendeePoll2(p)
    \/ LogAttendance(p)
    \/ ParticipantError(p)
    \/ Summary(p)

\* one operator runs the script, one run after the other; reads see every row
Next ==
    \/ Run(1, FALSE, MaxRuns)
    \/ StoreAssignAttendeeId
    \/ StoreAssignSessionId

Spec == Init /\ [][Next]_vars

\* the same, against a store whose appended rows show up in reads after a delay
NextLag ==
    \/ Run(1, TRUE, MaxLagRuns)
    \/ StoreAssignAttendeeId
    \/ StoreAssignSessionId
    \/ StoreShowRow

SpecLag == Init /\ [][NextLag]_vars

\* one run on a spreadsheet that already holds attendee rows
NextScan ==
    \/ Run(1, FALSE, MaxScanRuns)
    \/ StoreAssignAttendeeId
    \/ StoreAssignSessionId

SpecScan == InitTable /\ [][NextScan]_vars

\* the steps the script takes by itself when its store calls return:
\* everything but its start (the operator launches it), the answer to the
\* prompt (input() waits for the operator) and the exceptions of store calls
\* (they may happen, nothing relies on them)
Proceeds(p) ==
    \/ Connect(p)
    \/ CreateSessionAppend(p, FALSE)
    \/ SessionPoll1(p)
    \/ SessionPoll2(p)
    \/ ResolveRead(p)
    \/ ResolveMatch(p, FALSE)
    \/ AttendeePoll1(p)
    \/ AttendeePoll2(p)
    \/ LogAttendance(p)
    \/ Summary(p)

NextFair ==
    \/ Run(1, FALSE, MaxFairRuns)
    \/ StoreAssignAttendeeId
    \/ StoreAssignSessionId

\* a started script keeps running: every sleep ends and a store call that
\* does not raise returns.  Nothing is assumed of the store's id assignment.
SpecFair == Init /\ [][NextFair]_vars /\ WF_vars(Proceeds(1))

\* the inputs of the runs that work at once: short participant lists, and
\* an operator who answers the prompt with yes, no or nothing
ConcInputs(p) ==
    /\ Len(participants'[p]) <= MaxConcParticipants
    /\ confirmation'[p] \in {"", "yes", "no"}

\* two operators run the script on the same spreadsheet at the same time:
\* the steps of their runs interleave at the store round-trips
NextConc ==
    \/ \E p \in Procs : Run(p, FALSE, MaxConcRuns) /\ ConcInputs(p)
    \/ StoreAssignAttendeeId
    \/ StoreAssignSessionId

SpecConc == Init /\ [][NextConc]_vars

\* ------------------------------------------------------------------ claims
\* get_or_create_attendee returns to main in this step (it did not raise)
Returns(p) ==
    /\ pc[p] \in {"match", "poll1", "poll2"}
    /\ pc'[p] \in {"log", "loop"}
    /\ last_call' # NoCall

\* C1: under a single sequential writer, over all import runs, no two
\* attendee rows carry the same non-empty email compared case-insensitively.
C1_NoDuplicateEmail ==
    \A i, j \in DOMAIN attendees :
        (i # j /\ attendees[i].email # "")
            => Lower(attendees[i].email) # Lower(attendees[j].email)

\* a second run resolved an email that a row holds in another case, and
\* reused that row
C1_Witness ==
    /\ runs = 2
    /\ pc[1] = "log"
    /\ appended[1] = 0
    /\ email[1] # ""
    /\ \E i \in DOMAIN attendees :
          /\ attendees[i].email # email[1]
          /\ Lower(attendees[i].email) = Lower(email[1])
          /\ attendees[i].id = ToStr(member_id[1])

\* C2 as stated: a call with the same (name, email) as the call before it
\* returns the same id as that call and appends no row.
C2_SameIdAsFirstCall ==
    [][\A p \in Procs :
          (Returns(p) /\ last_call'.follows = "same")
              => (last_call'.id = last_call.id /\ ~last_call'.appended)]_vars

\* C2 amended: the second call appends no row, and returns the first call's
\* id whenever the first call returned one.
C2_SecondCallReusesRow ==
    [][\A p \in Procs :
          (Returns(p) /\ last_call'.follows = "same")
              => /\ ~last_call'.appended
                 /\ last_call.id # None => last_call'.id = last_call.id]_vars

\* a call repeated the pair of the call before it and got a row's id back
C2_Witness ==
    /\ last_call.follows = "same"
    /\ last_call.id # None
    /\ ~last_call.appended
    /\ \E i \in DOMAIN attendees : attendees[i].id = ToStr(last_call.id)

\* positions of main inside the participant loop
InLoop(p) == pc[p] \in {"loop", "match", "poll1", "poll2", "log"}

\* C3: an id returned after an append is the id of the row that call
\* appended, also when the appended row shows up in reads after a delay.
C3_ReturnsOwnRowId ==
    \A p \in Procs :
        /\ (pc[p] = "log" /\ appended[p] # 0)
              => attendees[appended[p]].id = ToStr(member_id[p])
        /\ (session_id[p] # None /\ sess_row[p] # 0)
              => sessions[sess_row[p]].id = ToStr(session_id[p])

\* C4: once an attendee row's email is non-empty no step changes it.
C4_EmailNeverOverwritten ==
    [][\A i \in DOMAIN attendees :
          attendees[i].email # "" => attendees'[i].email = attendees[i].email]_vars

\* a participant with an email met a row of its name that holds another
\* email: the row was left alone and a new row appended
C4_Witness ==
    /\ pc[1] = "poll1"
    /\ email[1] # ""
    /\ \E i \in 1..(appended[1] - 1) :
          /\ Lower(attendees[i].name) = Lower(participant_name(1))
          /\ attendees[i].email # ""
          /\ Lower(attendees[i].email) # Lower(email[1])

\* C5: a call with the name of the call before it and an email equal to
\* that call's email ignoring case returns, when that call returned an id,
\* the same id, and appends no row; and the id a call returns for an email
\* is the id of the row that holds this email ignoring case (so that, the
\* email being held by one row only, any later call finds the same row).
C5_EmailMatchIgnoresCase ==
    [][\A p \in Procs :
          /\ (/\ Returns(p)
              /\ last_call'.follows \in {"same", "fold"}
              /\ last_call'.email # ""
              /\ last_call.id # None)
                => (last_call'.id = last_call.id /\ ~last_call'.appended)
          /\ (Returns(p) /\ last_call'.email # "" /\ last_call'.id # None)
                => \E i \in DOMAIN attendees' :
                      /\ attendees'[i].id = ToStr(last_call'.id)
                      /\ Lower(attendees'[i].email) = Lower(last_call'.email)]_vars

\* a call gave the email of the call before it in another case and got the
\* same row
C5_Witness ==
    /\ last_call.follows = "fold"
    /\ last_call.id # None
    /\ ~last_call.appended
    /\ \E i \in DOMAIN attendees :
          /\ attendees[i].id = ToStr(last_call.id)
          /\ attendees[i].email # last_call.email
          /\ Lower(attendees[i].email) = Lower(last_call.email)

\* C6: when the retry leaves the appended row's id empty the attendee is
\* skipped and nothing is logged for it, the session failure ends the run,
\* and no attendance row is ever written with an id that is not positive.
C6_PollFailureReported ==
    [][\A p \in Procs :
          /\ (/\ pc[p] = "poll2"
              /\ pc'[p] # "poll2"
              /\ attendees[appended[p]].id = "")
                => /\ pc'[p] = "loop"
                   /\ skipped_count'[p] = skipped_count[p] + 1
                   /\ attendance_log' = attendance_log
          /\ (/\ pc[p] = "sess_poll2"
              /\ pc'[p] # "sess_poll2"
              /\ sessions[sess_row[p]].id = "")
                => /\ pc'[p] = "done"
                   /\ outcome'[p] \in {"session_failed", "session_error"}
          /\ attendance_log' # attendance_log
                => /\ attendance_log'[Len(attendance_log')].attendee_id >= 1
                   /\ attendance_log'[Len(attendance_log')].session_id >= 1]_vars

\* the call appended a row, both reads found its id empty, the participant
\* was skipped
C6_Witness ==
    /\ pc[1] = "loop"
    /\ last_call.appended
    /\ last_call.id = None
    /\ appended[1] # 0
    /\ attendees[appended[1]].id = ""
    /\ skipped_count[1] >= 1

\* C7: a run whose create_session returned no id or raised appends no
\* attendance row and resolves no participant.
C7_SessionFailureIsFatal ==
    \A p \in Procs :
        session_id[p] = None
            => /\ ~InLoop(p)
               /\ log_rows[p] = 0
               /\ cur[p] = 1
               /\ attendance_count[p] + blank_email_count[p] + skipped_count[p] = 0

\* the id of the session row never showed up and the run ended with its
\* participants unprocessed
C7_Witness ==
    /\ outcome[1] = "session_failed"
    /\ pc[1] = "done"
    /\ Len(participants[1]) >= 1
    /\ sessions[sess_row[1]].id = ""

\* C8: a run mutates the store only after the extraction and the connection
\* succeeded and the operator answered yes or y.
C8_NoMutationBeforeConfirmation ==
    \A p \in Procs :
        wrote[p] => /\ passed[p] = {"extract", "connect", "confirm"}
                    /\ confirmation[p] \in {"yes", "y"}

\* the operator typed Y and the run wrote attendance
C8_Witness ==
    /\ wrote[1]
    /\ confirmation[1] = "y"
    /\ log_rows[1] >= 1

\* C9: inside the loop and at its end every finished participant is in
\* exactly one tally, the logged tallies equal the attendance rows the run
\* appended, a run with a session ends only by completing, and it completes
\* with every participant processed.
C9_TalliesCoverParticipants ==
    \A p \in Procs :
        /\ (InLoop(p) \/ outcome[p] = "completed")
              => /\ attendance_count[p] + blank_email_count[p] + skipped_count[p]
                        = cur[p] - 1
                 /\ log_rows[p] = attendance_count[p] + blank_email_count[p]
        /\ outcome[p] = "completed" => cur[p] = Len(participants[p]) + 1
        /\ (pc[p] = "done" /\ session_id[p] # None) => outcome[p] = "completed"

\* a run of two people completed with the first failed and the second
\* logged after it
C9_Witness ==
    /\ outcome[1] = "completed"
    /\ Len(participants[1]) = 2
    /\ Lower(participants[1][1]) # Lower(participants[1][2])
    /\ skipped_count[1] = 1
    /\ log_rows[1] = 1
    /\ \E i \in DOMAIN attendees :
          /\ attendees[i].id = ToStr(attendance_log[Len(attendance_log)].attendee_id)
          /\ Lower(attendees[i].name) = Lower(participants[1][2])

\* the attendee row that carries the id
RowOf(id) == CHOOSE i \in DOMAIN attendees : attendees[i].id = ToStr(id)

\* a first run over an empty spreadsheet that completed with nobody skipped
CleanFirstRun(p) ==
    /\ runs = 1
    /\ outcome[p] = "completed"
    /\ skipped_count[p] = 0

\* one session row, one attendance row per participant, in order, each
\* pointing at an attendee row: one of the participant's name, or one the
\* participant was matched to by its email
OneRowPerParticipant(p) ==
    /\ Len(sessions) = 1
    /\ Len(attendance_log) = Len(participants[p])
    /\ \A k \in DOMAIN participants[p] :
          /\ attendance_log[k].session_id = session_id[p]
          /\ \E i \in DOMAIN attendees :
                /\ attendees[i].id = ToStr(attendance_log[k].attendee_id)
                /\ \/ Lower(attendees[i].name) = Lower(participants[p][k])
                   \/ /\ attendance_log[k].attendee_id \in mailed_ids[p]
                      /\ attendees[i].email # ""

RunLogRows(p) ==
    (Len(attendance_log) - log_rows[p] + 1)..Len(attendance_log)

\* the participant list holds no name twice (extract_participant_data)
DistinctNames(p) ==
    \A a, b \in DOMAIN participants[p] :
        a # b => participants[p][a] # participants[p][b]

\* C11: within one run over a list of distinct names, whatever the emails,
\* the attendance log receives at most one row for each attendee id.
C11_OneLogRowPerAttendee ==
    \A p \in Procs :
        DistinctNames(p)
            => \A i, j \in RunLogRows(p) :
                  i # j => attendance_log[i].attendee_id
                              # attendance_log[j].attendee_id

\* a step of an import run, as opposed to a step of the store
SystemStep == <<runs, pc, cur>>' # <<runs, pc, cur>>

\* C12: no step removes a row; no step of a run changes an existing session
\* row, an existing attendance row, or the id or the name of an existing
\* attendee row (the store alone fills an empty id cell); the email cell of
\* an attendee row changes only in a step of a run, from empty to non-empty,
\* one row at a time: so each row is updated at most once.
C12_AppendOnlyExceptBackfill ==
    [][/\ Len(attendees') >= Len(attendees)
       /\ Len(sessions') >= Len(sessions)
       /\ Len(attendance_log') >= Len(attendance_log)
       /\ \A i \in DOMAIN attendance_log : attendance_log'[i] = attendance_log[i]
       /\ \A i \in DOMAIN sessions :
             \/ sessions'[i] = sessions[i]
             \/ /\ ~SystemStep
                /\ sessions[i].id = ""
                /\ sessions'[i] = [sessions[i] EXCEPT !.id = ToStr(i)]
       /\ \A i \in DOMAIN attendees :
             /\ attendees'[i].name = attendees[i].name
             /\ SystemStep => attendees'[i].id = attendees[i].id
             /\ attendees'[i].email # attendees[i].email
                   => /\ SystemStep
                      /\ attendees[i].email = ""
                      /\ attendees'[i].email # ""
                      /\ Len(attendees') = Len(attendees)
                      /\ \A j \in DOMAIN attendees :
                            j # i => attendees'[j] = attendees[j]]_vars

\* the first run appended a row for a participant without email and then
\* wrote the email of a later participant of that name into it
C12_Witness ==
    /\ runs = 1
    /\ pc[1] = "log"
    /\ appended[1] = 0
    /\ email[1] # ""
    /\ Len(attendees) = 1
    /\ attendees[1].email = email[1]
    /\ member_id[1] \in blank_ids[1]
    /\ Len(attendance_log) = 1

\* the chat-completions call failed: a transport error, a status outside
\* 200..299, or a 200 whose content does not parse
FilterFailed(resp) ==
    /\ resp.key
    /\ \/ resp.status = 0
       \/ resp.status \notin 200..299
       \/ resp.status = 200 /\ ~resp.parses

\* C13: when the chat-completions call fails, validate_names_with_llm hands
\* back the list it was given, element for element, and main goes on to the
\* connection with that list.
C13_FilterFailsOpen ==
    \A p \in Procs :
        (pc[p] = "connect" /\ FilterFailed(response[p]))
            => /\ participants[p] = extracted[p]
               /\ outcome[p] = "none"
               /\ passed[p] = {"extract"}

\* the service answered 500 for a list of two names and main holds both
C13_Witness ==
    /\ pc[1] = "connect"
    /\ response[1].key
    /\ response[1].status = 500
    /\ Len(extracted[1]) = 2
    /\ participants[1] = extracted[1]

\* the scan of get_or_create_attendee ends in this step without raising
Scans(p) ==
    /\ pc[p] = "match"
    /\ pc'[p] # "match"
    /\ ~(pc'[p] = "loop" /\ last_call' = NoCall)

\* rows of the snapshot whose email is the one looked for, ignoring case
SnapshotEmailRows(p) ==
    {i \in DOMAIN all_values[p] :
        Lower(Strip(all_values[p][i].email)) = Lower(email[p])}

\* C14: a call with a non-empty email that some row of the snapshot holds,
\* ignoring case, returns what the id cell of such a row held and writes to
\* no table, whatever rows match the name.
C14_EmailBeforeName ==
    [][\A p \in Procs :
          (Scans(p) /\ email[p] # "" /\ SnapshotEmailRows(p) # {})
              => /\ storeVars' = storeVars
                 /\ Returns(p)
                 /\ ~last_call'.appended
                 /\ \E i \in SnapshotEmailRows(p) :
                       last_call'.id = IntOrNone(Strip(all_values[p][i].id))]_vars

\* the call returned the id of the row holding its email while another row
\* of its name still has an empty email
C14_Witness ==
    /\ pc[1] = "log"
    /\ appended[1] = 0
    /\ email[1] # ""
    /\ \E i, j \in DOMAIN attendees :
          /\ i # j
          /\ Lower(attendees[i].email) = Lower(email[1])
          /\ attendees[i].id = ToStr(member_id[1])
          /\ Lower(attendees[j].name) = Lower(participant_name(1))
          /\ attendees[j].email = ""

\* rows of the snapshot of the participant's name, ignoring case
SnapshotNameRows(p) ==
    {i \in DOMAIN all_values[p] :
        Lower(Strip(all_values[p][i].name)) = Lower(Strip(participant_name(p)))}

\* rows of the snapshot that satisfy the rule in force for the call: the
\* email, else the name with an empty email; without email, the name
MatchingRows(p) ==
    IF email[p] = "" THEN SnapshotNameRows(p)
    ELSE IF SnapshotEmailRows(p) # {} THEN SnapshotEmailRows(p)
    ELSE {i \in SnapshotNameRows(p) : Strip(all_values[p][i].email) = ""}

\* the only change to the attendee table is the email written into row i
OnlyEmailOfRowWritten(i, em) ==
    /\ Len(attendees') = Len(attendees)
    /\ attendees'[i] = [attendees[i] EXCEPT !.email = em]
    /\ \A j \in DOMAIN attendees : j # i => attendees'[j] = attendees[j]

\* C15: when rows of the snapshot satisfy the rule in force, the call
\* returns what the id cell of the topmost of them held; under the
\* name-with-empty-email rule it writes the email into that row and into no
\* other, under the other rules it writes nothing.
C15_FirstMatchWins ==
    [][\A p \in Procs :
          (Scans(p) /\ MatchingRows(p) # {})
              => \E top \in MatchingRows(p) :
                    /\ \A i \in MatchingRows(p) : top <= i
                    /\ Returns(p)
                    /\ last_call'.id = IntOrNone(Strip(all_values[p][top].id))
                    /\ IF email[p] # "" /\ SnapshotEmailRows(p) = {}
                       THEN OnlyEmailOfRowWritten(top, email[p])
                       ELSE attendees' = attendees]_vars

\* two rows of the participant's name had no email; the call filled the
\* upper one, returned its id and left the lower one empty
C15_Witness ==
    /\ pc[1] = "log"
    /\ last_call.updated = 2
    /\ member_id[1] = 1
    /\ Len(attendees) = 2
    /\ attendees[1].email = email[1]
    /\ attendees[2].email = ""
    /\ Lower(attendees[1].name) = Lower(participant_name(1))
    /\ Lower(attendees[2].name) = Lower(participant_name(1))

\* C16: a call without email looks at the names only. When rows of the
\* snapshot have the name, ignoring case and whatever their email, it
\* returns what the id cell of the topmost held and writes to no table;
\* when none has, rows with an empty email do not count as a match and the
\* call appends a row with the name and an empty email.
C16_EmptyEmailMatchesByName ==
    [][\A p \in Procs :
          (Scans(p) /\ email[p] = "")
              => IF SnapshotNameRows(p) # {}
                 THEN /\ storeVars' = storeVars
                      /\ Returns(p)
                      /\ ~last_call'.appended
                      /\ \E top \in SnapshotNameRows(p) :
                            /\ \A i \in SnapshotNameRows(p) : top <= i
                            /\ last_call'.id
                                  = IntOrNone(Strip(all_values[p][top].id))
                 ELSE /\ pc'[p] = "poll1"
                      /\ attendees' = Append(attendees,
                            [id |-> "", name |-> participant_name(p), email |-> ""])]_vars

\* a participant without email got the id of the upper of two rows of its
\* name, a row that holds an email; nothing was appended or written
C16_Witness ==
    /\ pc[1] = "log"
    /\ email[1] = ""
    /\ appended[1] = 0
    /\ last_call.updated = 0
    /\ member_id[1] = 1
    /\ Len(attendees) = 2
    /\ attendees[1].email # ""
    /\ Lower(attendees[1].name) = Lower(participant_name(1))
    /\ Lower(attendees[2].name) = Lower(participant_name(1))
    /\ attendees[1].name # participant_name(1)

\* the call under way repeats the name and email of the latest call, which
\* appended a row and came back without an id
RepeatsFailedCall(p) ==
    /\ Follows(last_call, participant_name(p), email[p]) = "same"
    /\ last_call.appended
    /\ last_call.id = None

\* C17: a call appends no attendee row when a row of the snapshot satisfies
\* the rule in force, whether or not that row has an id; and a call that
\* repeats a call whose polling ran out appends no row.
C17_MintedOnce ==
    [][\A p \in Procs :
          /\ (Scans(p) /\ MatchingRows(p) # {})
                => /\ Len(attendees') = Len(attendees)
                   /\ pc'[p] # "poll1"
          /\ (pc[p] = "match" /\ pc'[p] # "match" /\ RepeatsFailedCall(p))
                => /\ Len(attendees') = Len(attendees)
                   /\ pc'[p] # "poll1"]_vars

\* the call repeated the call before it, found the row that call had left
\* without an id, and returned without appending: the table holds one row
C17_Witness ==
    /\ last_call.follows = "same"
    /\ ~last_call.appended
    /\ last_call.id = None
    /\ pc[1] = "loop"
    /\ Len(attendees) = 1
    /\ attendees[1].id = ""
    /\ attendees[1].name = last_call.name
    /\ attendees[1].email = last_call.email

\* positions inside get_or_create_attendee and inside create_session
InAttendeeCall(p) == pc[p] \in {"match", "poll1", "poll2"}
InSessionCall(p) == pc[p] \in {"create_session", "sess_poll1", "sess_poll2"}

\* C18: after an append a call reads the table at most twice: the first
\* read returns or leads to the second, the second returns; so every call
\* comes back to main and every confirmed run ends, with its summary or with
\* a fatal exit, whether or not the store ever assigns an id.
C18_PollingBounded ==
    /\ [][\A p \in Procs :
             /\ pc[p] = "poll1" => pc'[p] \in {"poll1", "poll2", "log", "loop"}
             /\ pc[p] = "poll2" /\ <<pc, cur>>' # <<pc, cur>>
                   => pc'[p] \in {"log", "loop"}
             /\ pc[p] = "sess_poll1" => pc'[p] \in {"sess_poll1", "sess_poll2",
                                                    "loop", "done"}
             /\ pc[p] = "sess_poll2" /\ pc' # pc => pc'[p] \in {"loop", "done"}]_vars
    /\ \A p \in Procs : InAttendeeCall(p) ~> pc[p] \in {"log", "loop"}
    /\ \A p \in Procs : InSessionCall(p) ~> pc[p] \in {"loop", "done"}
    /\ \A p \in Procs :
          pc[p] = "create_session"
              ~> (pc[p] = "done"
                  /\ outcome[p] \in {"completed", "session_failed", "session_error"})

\* a run of two participants reached its summary although the store never
\* gave an id to either of the rows it appended
C18_Witness ==
    /\ pc[1] = "done"
    /\ outcome[1] = "completed"
    /\ Len(participants[1]) = 2
    /\ skipped_count[1] = 2
    /\ Len(attendees) = 2
    /\ attendees[1].id = ""
    /\ attendees[2].id = ""

\* C19: with two runs at work at once a call that appended a row returns the
\* id of that row or of a row another run appended after it, and two rows
\* with the same email are never both written by the same operator: what
\* goes wrong takes two writers.
C19_RacesTakeTwoWriters ==
    /\ \A p \in Procs :
          /\ (pc[p] = "log" /\ appended[p] # 0)
                => \E k \in appended[p]..Len(attendees) :
                      /\ attendees[k].id = ToStr(member_id[p])
                      /\ k # appended[p] => writer[k] # p
          /\ (session_id[p] # None /\ sess_row[p] # 0)
                => \E k \in sess_row[p]..Len(sessions) :
                      sessions[k].id = ToStr(session_id[p])
    /\ \A i, j \in DOMAIN attendees :
          (i # j /\ writer[i] = writer[j] /\ attendees[i].email # "")
              => Lower(attendees[i].email) # Lower(attendees[j].email)

\* both runs appended a row for the same name and email, and the first run
\* took the ids of the second run's session row and attendee row for its own
C19_Witness ==
    /\ pc[1] = "log"
    /\ pc[2] \in {"poll1", "poll2"}
    /\ appended[1] # 0
    /\ appended[2] > appended[1]
    /\ writer[appended[1]] = 1
    /\ writer[appended[2]] = 2
    /\ attendees[appended[1]].email # ""
    /\ attendees[appended[1]].email = attendees[appended[2]].email
    /\ attendees[appended[1]].name = attendees[appended[2]].name
    /\ attendees[appended[2]].id = ToStr(member_id[1])
    /\ sess_row[2] > sess_row[1]
    /\ sess_row[1] # 0
    /\ sessions[sess_row[2]].id = ToStr(session_id[1])

\* C20: every step that appends an attendance row is the logging step of a
\* run; the row's session_id is the id that run's create_session returned,
\* an id of at least 1, and its attendee_id is an id of at least 1 that the
\* id cell of some attendee row holds when the row is appended.
C20_LogRowsReferToRows ==
    [][attendance_log' # attendance_log
          => /\ Len(attendance_log') = Len(attendance_log) + 1
             /\ \E p \in Procs :
                   /\ pc[p] = "log"
                   /\ pc'[p] = "loop"
                   /\ session_id[p] >= 1
                   /\ attendance_log'[Len(attendance_log')].session_id
                         = session_id[p]
             /\ attendance_log'[Len(attendance_log')].attendee_id >= 1
             /\ \E i \in DOMAIN attendees :
                   attendees[i].id
                      = ToStr(attendance_log'[Len(attendance_log')].attendee_id)]_vars

\* a second run logged a participant found on a row of the first run, under
\* the id of the session row it had itself appended
C20_Witness ==
    /\ runs = 2
    /\ pc[1] = "loop"
    /\ log_rows[1] = 1
    /\ last_call.id # None
    /\ ~last_call.appended
    /\ sess_row[1] = 2
    /\ sessions[2].id = ToStr(session_id[1])
    /\ attendance_log[Len(attendance_log)].session_id = session_id[1]
    /\ attendance_log[Len(attendance_log)].attendee_id = last_call.id
    /\ attendance_log[Len(attendance_log)].attendee_id # session_id[1]
    /\ \E i \in DOMAIN attendees : attendees[i].id = ToStr(last_call.id)

====
